---- MODULE Spec2Model ----
(***************************************************************************)
(* Model of gosocks (src/gosocks.go): one accepted client connection       *)
(* driven through clientLoop (SOCKS5 negotiation) and the two relay        *)
(* goroutines readClientLoop / readRemoteLoop.                             *)
(*                                                                         *)
(* Go arrays and slices are modelled as functions over 0..n-1 so that the  *)
(* indices of the model are the indices of the source.  Byte strings that  *)
(* travel over a socket (frames, streams) are sequences.                   *)
(***************************************************************************)
EXTENDS Integers, Sequences, FiniteSets, TLC

(***************************************************************************)
(* Bounds of the model.                                                    *)
(***************************************************************************)
\* largest method count a client offers in the greeting (the code: 255)
MaxMethods == 2
\* longest host name of a DomainName request (the code: 255)
MaxHostLen == 1
\* number of bytes each peer sends during the relay
MaxData == 2
\* number of connections main accepts
MaxConns == 3
\* size of the relay buffers, var buf [4096]byte
BufSize == 4096

(***************************************************************************)
(* Input alphabets: the byte values and addresses the environment draws.   *)
(***************************************************************************)
VersionBytes == {4, 5}
MethodBytes  == {0, 2}
CommandBytes == {1, 2}
ReservedBytes == {0, 1}
AtypBytes    == {0, 1, 3, 4, 5}
HostBytes    == {97}
\* the payload each peer sends during the relay.  The relay loops never look
\* at a payload byte, so streams of pairwise distinct bytes are the inputs on
\* which a lost, duplicated or reordered byte always shows.
ClientStream   == [i \in 1..MaxData |-> i]
UpstreamStream == [i \in 1..MaxData |-> 100 + i]
\* port bytes <<hi, lo>> as they appear on the wire
PortInputs   == {<<0, 80>>, <<255, 254>>}
Ip4Inputs    == {<<127, 0, 0, 1>>, <<10, 0, 255, 3>>}
Ip6Inputs    == {<<32, 1, 13, 184, 0, 0, 0, 0, 0, 0, 0, 0, 0, 0, 0, 1>>}
\* an IPv4 address in the 16-byte form net.IP also uses
Ip4In16      == <<0, 0, 0, 0, 0, 0, 0, 0, 0, 0, 255, 255, 10, 0, 255, 3>>
\* what net.LookupIP may return without error
LookupResults == { <<>>,
                   << <<10, 0, 255, 3>> >>,
                   << Ip4In16 >>,
                   << <<32, 1, 13, 184, 0, 0, 0, 0, 0, 0, 0, 0, 0, 0, 0, 1>>, <<10, 0, 255, 3>> >> }
\* local addresses the kernel may bind the outbound socket to
LocalAddrs   == { [IP |-> <<10, 0, 0, 2>>, Port |-> 49152],
                  [IP |-> <<32, 1, 13, 184, 0, 0, 0, 0, 0, 0, 0, 0, 0, 0, 0, 2>>, Port |-> 49153] }

(***************************************************************************)
(* Helpers for Go slices.                                                  *)
(***************************************************************************)
\* a Go array holding the bytes of sequence s
Arr(s) == [i \in 0..(Len(s) - 1) |-> s[i + 1]]
\* len(a) of a Go array
ALen(a) == Cardinality(DOMAIN a)
\* the bytes of a[lo:hi] as a sequence
Slice(a, lo, hi) == [k \in 1..(hi - lo) |-> a[lo + k - 1]]
\* the sequences over S of length exactly n
SeqsOfLen(S, n) == [1..n -> S]
Range(s) == {s[i] : i \in DOMAIN s}
Min(a, b) == IF a < b THEN a ELSE b
IsPrefix(s, t) == Len(s) <= Len(t) /\ SubSeq(t, 1, Len(s)) = s

VARIABLES
  pc,             \* position of clientLoop
  versionMethod,  \* [2]byte
  methods,        \* []byte read from the greeting (empty until read)
  requestHeader,  \* [4]byte
  headerRead,     \* the request header has been read in full
  reply,          \* [22]byte
  buf,            \* address + port bytes of an IPv4/IPv6 request
  host,           \* host name bytes of a DomainName request
  hostLen,        \* hostLen[0]; -1 until read
  ips,            \* result of net.LookupIP
  looked,         \* net.LookupIP has been called
  remoteAddress,  \* *net.TCPAddr
  nread,          \* number of bytes consumed from the client by ReadFull
  frames,         \* the buffers handed to client.Write by clientLoop, in order
  cliOut,         \* the bytes the client received from clientLoop
  dialed,         \* the addresses handed to net.DialTCP, in order
  remote,         \* outbound socket: "none", "open", "closed"
  remoteLocal,    \* local address of the outbound socket
  clientClosed,   \* client.Close() has run
  result,         \* which exit of clientLoop was taken
  stops,          \* completion signals clientLoop has received
  cPc, cBuf, cStart, cliSent, upOut, cliEof,   \* readClientLoop
  rPc, rBuf, rStart, upSent, relOut, upEof,    \* readRemoteLoop
  process,        \* the proxy process: "running" or "exited"
  tasks,          \* the stage of each goroutine main has started, in accept order
  acceptErr       \* the error of the last AcceptTCP: "none", "temporary", "permanent"

negVars == <<pc, versionMethod, methods, requestHeader, headerRead, reply, buf,
             host, hostLen, ips, looked, remoteAddress, nread, frames, cliOut,
             dialed, remote, remoteLocal, clientClosed, result>>
c2rVars == <<cPc, cBuf, cStart, cliSent, upOut, cliEof>>
r2cVars == <<rPc, rBuf, rStart, upSent, relOut, upEof>>
mainVars == <<process, tasks, acceptErr>>
vars == <<negVars, stops, c2rVars, r2cVars, mainVars>>

Init ==
  /\ pc = "readVersionMethod"
  /\ versionMethod = [i \in 0..1 |-> 0]
  /\ methods = <<>>
  /\ requestHeader = [i \in 0..3 |-> 0]
  /\ headerRead = FALSE
  /\ reply = [i \in 0..21 |-> 0]
  /\ buf = <<>>
  /\ host = <<>>
  /\ hostLen = -1
  /\ ips = <<>>
  /\ looked = FALSE
  /\ remoteAddress = [IP |-> <<>>, Port |-> 0]
  /\ nread = 0
  /\ frames = <<>>
  /\ cliOut = <<>>
  /\ dialed = <<>>
  /\ remote = "none"
  /\ remoteLocal = [IP |-> <<>>, Port |-> 0]
  /\ clientClosed = FALSE
  /\ result = "running"
  /\ stops = 0
  /\ cPc = "idle" /\ cBuf = <<>> /\ cStart = 0 /\ cliSent = <<>> /\ upOut = <<>> /\ cliEof = FALSE
  /\ rPc = "idle" /\ rBuf = <<>> /\ rStart = 0 /\ upSent = <<>> /\ relOut = <<>> /\ upEof = FALSE
  /\ process = "running" /\ tasks = <<>> /\ acceptErr = "none"

\* mutant of Return: the outbound socket is not closed on return
ReturnLeak(why) ==
  /\ pc' = "done"
  /\ result' = why
  /\ clientClosed' = TRUE
  /\ remote' = remote

(***************************************************************************)
(* return of clientLoop: the deferred Close calls run, remote first.       *)
(***************************************************************************)
Return(why) ==
  /\ pc' = "done"
  /\ result' = why
  /\ clientClosed' = TRUE
  /\ remote' = IF remote = "open" THEN "closed" ELSE remote

\* outcomes of conn.Write(f): all of f with a nil error, or an error after
\* a strict prefix of f
WriteOutcomes(f) ==
  {[n |-> Len(f), err |-> FALSE]} \cup {[n |-> k, err |-> TRUE] : k \in 0..(Len(f) - 1)}

\* a failed io.ReadFull of n bytes: fewer than n bytes were there
ShortRead(n, why) ==
  /\ \E k \in 0..(n - 1) : nread' = nread + k
  /\ Return(why)

(***************************************************************************)
(* clientLoop, lines 41-57: read [VER][NMETHODS] and check them.           *)
(***************************************************************************)
ReadVersionMethod ==
  /\ pc = "readVersionMethod"
  /\ \/ /\ ShortRead(2, "transport")
        /\ UNCHANGED versionMethod
     \/ \E v \in VersionBytes, n \in 0..MaxMethods :
          /\ versionMethod' = Arr(<<v, n>>)
          /\ nread' = nread + 2
          /\ IF v # 5 THEN Return("protocol")
             ELSE IF n = 0 THEN Return("protocol")
             ELSE /\ pc' = "readMethods"
                  /\ UNCHANGED <<result, clientClosed, remote>>
  /\ UNCHANGED <<methods, requestHeader, headerRead, reply, buf, host, hostLen, ips,
                 looked, remoteAddress, frames, cliOut, dialed, remoteLocal,
                 stops, c2rVars, r2cVars, mainVars>>

\* mutant of HasMethod0: only the first offered method is looked at
HasMethod0First(m, nMethods) == m[1] = 0

\* lines 66-72: the scan for method 0x00
HasMethod0(m, nMethods) == \E i \in 0..(nMethods - 1) : m[i + 1] = 0

(***************************************************************************)
(* lines 59-76: read the methods, require "no authentication required".    *)
(***************************************************************************)
ReadMethods ==
  /\ pc = "readMethods"
  /\ LET nMethods == versionMethod[1] IN
     \/ /\ ShortRead(nMethods, "transport")
        /\ UNCHANGED methods
     \/ \E m \in SeqsOfLen(MethodBytes, nMethods) :
          /\ methods' = m
          /\ nread' = nread + nMethods
          /\ IF ~HasMethod0(m, nMethods) THEN Return("nomethod")
             ELSE /\ pc' = "writeMethod"
                  /\ UNCHANGED <<result, clientClosed, remote>>
  /\ UNCHANGED <<versionMethod, requestHeader, headerRead, reply, buf, host, hostLen,
                 ips, looked, remoteAddress, frames, cliOut, dialed, remoteLocal,
                 stops, c2rVars, r2cVars, mainVars>>

\* mutant of WriteMethodSelection: the result of the write is not checked
WriteMethodSelectionUnchecked ==
  /\ pc = "writeMethod"
  /\ versionMethod' = [versionMethod EXCEPT ![1] = 0]
  /\ LET f == Slice(versionMethod', 0, 2) IN
       /\ frames' = Append(frames, f)
       /\ \E w \in WriteOutcomes(f) : cliOut' = cliOut \o SubSeq(f, 1, w.n)
  /\ pc' = "readRequest"
  /\ UNCHANGED <<result, clientClosed, remote>>
  /\ UNCHANGED <<methods, requestHeader, headerRead, reply, buf, host, hostLen, ips,
                 looked, remoteAddress, nread, dialed, remoteLocal,
                 stops, c2rVars, r2cVars, mainVars>>

(***************************************************************************)
(* lines 78-83: write the method selection [0x05][0x00].                   *)
(***************************************************************************)
WriteMethodSelection ==
  /\ pc = "writeMethod"
  /\ versionMethod' = [versionMethod EXCEPT ![1] = 0]
  /\ LET f == Slice(versionMethod', 0, 2) IN
       /\ frames' = Append(frames, f)
       /\ \E w \in WriteOutcomes(f) :
            /\ cliOut' = cliOut \o SubSeq(f, 1, w.n)
            /\ IF w.err \/ w.n # ALen(versionMethod) THEN Return("transport")
               ELSE /\ pc' = "readRequest"
                    /\ UNCHANGED <<result, clientClosed, remote>>
  /\ UNCHANGED <<methods, requestHeader, headerRead, reply, buf, host, hostLen, ips,
                 looked, remoteAddress, nread, dialed, remoteLocal,
                 stops, c2rVars, r2cVars, mainVars>>

\* mutant of RequestStep: the reserved byte is not checked
RequestStepNoReserved(h) ==
  IF h[0] # 5 THEN "badVersion"
  ELSE IF h[1] # 1 THEN "replyCommand"
  ELSE IF h[3] = 1 \/ h[3] = 4 THEN "readIP"
  ELSE IF h[3] = 3 THEN "readHostLen"
  ELSE "replyAtyp"

\* mutant of RequestStep: the reserved byte is checked before the command
RequestStepReservedFirst(h) ==
  IF h[0] # 5 THEN "badVersion"
  ELSE IF h[2] # 0 THEN "badReserved"
  ELSE IF h[1] # 1 THEN "replyCommand"
  ELSE IF h[3] = 1 \/ h[3] = 4 THEN "readIP"
  ELSE IF h[3] = 3 THEN "readHostLen"
  ELSE "replyAtyp"

\* mutant of RequestStep: the command is checked before the version
RequestStepCommandFirst(h) ==
  IF h[1] # 1 THEN "replyCommand"
  ELSE IF h[0] # 5 THEN "badVersion"
  ELSE IF h[2] # 0 THEN "badReserved"
  ELSE IF h[3] = 1 \/ h[3] = 4 THEN "readIP"
  ELSE IF h[3] = 3 THEN "readHostLen"
  ELSE "replyAtyp"

\* lines 95-163: what clientLoop does next with request header h
RequestStep(h) ==
  IF h[0] # 5 THEN "badVersion"
  ELSE IF h[1] # 1 THEN "replyCommand"
  ELSE IF h[2] # 0 THEN "badReserved"
  ELSE IF h[3] = 1 \/ h[3] = 4 THEN "readIP"
  ELSE IF h[3] = 3 THEN "readHostLen"
  ELSE "replyAtyp"

\* mutant of ReplyCode: both early rejections answer 0x07
ReplyCodeSame(step) ==
  IF step = "replyCommand" \/ step = "replyAtyp" THEN 7 ELSE 0

\* lines 101 / 160: the REP byte set before an early rejection is written
ReplyCode(step) ==
  IF step = "replyCommand" THEN 7
  ELSE IF step = "replyAtyp" THEN 8
  ELSE 0

(***************************************************************************)
(* lines 85-163: read the 4-byte request header and dispatch on it.  The   *)
(* two rejections that write a reply leave the write to the next action.   *)
(***************************************************************************)
ReadRequestHeader ==
  /\ pc = "readRequest"
  /\ \/ /\ ShortRead(4, "transport")
        /\ UNCHANGED <<requestHeader, headerRead, reply>>
     \/ \E v \in VersionBytes, c \in CommandBytes, r \in ReservedBytes, a \in AtypBytes :
          /\ requestHeader' = Arr(<<v, c, r, a>>)
          /\ headerRead' = TRUE
          /\ nread' = nread + 4
          /\ LET step == RequestStep(requestHeader') IN
               /\ reply' = [reply EXCEPT ![0] = 5, ![2] = 0, ![1] = ReplyCode(step)]
               /\ IF step \in {"badVersion", "badReserved"} THEN Return("protocol")
                  ELSE /\ pc' = step
                       /\ UNCHANGED <<result, clientClosed, remote>>
  /\ UNCHANGED <<versionMethod, methods, buf, host, hostLen, ips, looked,
                 remoteAddress, frames, cliOut, dialed, remoteLocal,
                 stops, c2rVars, r2cVars, mainVars>>

\* mutant of WriteAndReturn: the return after the write is missing
WriteNoReturn(f, why) ==
  /\ frames' = Append(frames, f)
  /\ \E w \in WriteOutcomes(f) : cliOut' = cliOut \o SubSeq(f, 1, w.n)
  /\ pc' = "replySuccess"
  /\ UNCHANGED <<result, clientClosed, remote>>

\* client.Write(f) whose result the code ignores, followed by return
WriteAndReturn(f, why) ==
  /\ frames' = Append(frames, f)
  /\ \E w \in WriteOutcomes(f) : cliOut' = cliOut \o SubSeq(f, 1, w.n)
  /\ Return(why)

(***************************************************************************)
(* lines 99-104: command other than CONNECT, reply[:4] with REP 0x07.      *)
(***************************************************************************)
ReplyCommandNotSupported ==
  /\ pc = "replyCommand"
  /\ WriteAndReturn(Slice(reply, 0, 4), "unsupportedCommand")
  /\ UNCHANGED <<versionMethod, methods, requestHeader, headerRead, reply, buf, host,
                 hostLen, ips, looked, remoteAddress, nread, dialed, remoteLocal,
                 stops, c2rVars, r2cVars, mainVars>>

(***************************************************************************)
(* lines 158-162: unknown address type, reply[:4] with REP 0x08.           *)
(***************************************************************************)
ReplyAddressTypeNotSupported ==
  /\ pc = "replyAtyp"
  /\ WriteAndReturn(Slice(reply, 0, 4), "unsupportedAtyp")
  /\ UNCHANGED <<versionMethod, methods, requestHeader, headerRead, reply, buf, host,
                 hostLen, ips, looked, remoteAddress, nread, dialed, remoteLocal,
                 stops, c2rVars, r2cVars, mainVars>>

\* mutant of PortOf: the two port bytes taken low byte first
PortOfLittleEndian(hi, lo) == lo * 256 + hi

\* line 122 / 156: the port from its two wire bytes
PortOf(hi, lo) == hi * 256 + lo

\* lines 121-122: the dial target decoded from buf
DecodeIP(b, ipLen) == [IP |-> Slice(b, 0, ipLen), Port |-> PortOf(b[ipLen], b[ipLen + 1])]

(***************************************************************************)
(* lines 112-124: ATYP 0x01 / 0x04, read the address and the port.         *)
(***************************************************************************)
ReadIP ==
  /\ pc = "readIP"
  /\ LET ipLen == 4 * requestHeader[3] IN
     \/ /\ ShortRead(ipLen + 2, "transport")
        /\ UNCHANGED <<buf, remoteAddress, reply>>
     \/ \E ip \in (IF ipLen = 4 THEN Ip4Inputs ELSE Ip6Inputs), p \in PortInputs :
          /\ buf' = Arr(ip \o p)
          /\ nread' = nread + ipLen + 2
          /\ remoteAddress' = DecodeIP(buf', ipLen)
          /\ reply' = [reply EXCEPT ![3] = requestHeader[3]]
          /\ pc' = "dial"
          /\ UNCHANGED <<result, clientClosed, remote>>
  /\ UNCHANGED <<versionMethod, methods, requestHeader, headerRead, host, hostLen, ips,
                 looked, frames, cliOut, dialed, remoteLocal, stops, c2rVars, r2cVars, mainVars>>

(***************************************************************************)
(* lines 127-132: ATYP 0x03, read the host length.                         *)
(***************************************************************************)
ReadHostLen ==
  /\ pc = "readHostLen"
  /\ \/ /\ ShortRead(1, "transport")
        /\ UNCHANGED hostLen
     \/ \E l \in 0..MaxHostLen :
          /\ hostLen' = l
          /\ nread' = nread + 1
          /\ pc' = "readHost"
          /\ UNCHANGED <<result, clientClosed, remote>>
  /\ UNCHANGED <<versionMethod, methods, requestHeader, headerRead, reply, buf, host, ips,
                 looked, remoteAddress, frames, cliOut, dialed, remoteLocal,
                 stops, c2rVars, r2cVars, mainVars>>

(***************************************************************************)
(* lines 133-138: read the host name (a 0-byte ReadFull cannot fail).      *)
(***************************************************************************)
ReadHost ==
  /\ pc = "readHost"
  /\ \/ /\ hostLen > 0
        /\ ShortRead(hostLen, "transport")
        /\ UNCHANGED host
     \/ \E h \in SeqsOfLen(HostBytes, hostLen) :
          /\ host' = h
          /\ nread' = nread + hostLen
          /\ pc' = "lookup"
          /\ UNCHANGED <<result, clientClosed, remote>>
  /\ UNCHANGED <<versionMethod, methods, requestHeader, headerRead, reply, buf, hostLen,
                 ips, looked, remoteAddress, frames, cliOut, dialed, remoteLocal,
                 stops, c2rVars, r2cVars, mainVars>>

\* line 149: the address-type byte recorded for a resolved address
AtypOfLen(ip) == Len(ip) \div 4

\* mutant of LookupIP: a failed lookup is answered like a failed dial
LookupIPReplies ==
  /\ pc = "lookup"
  /\ looked' = TRUE
  /\ \/ /\ reply' = [reply EXCEPT ![1] = 5]
        /\ pc' = "replyDialFailed"
        /\ UNCHANGED <<ips, remoteAddress, result, clientClosed, remote>>
     \/ \E r \in LookupResults :
          /\ ips' = r
          /\ IF Len(r) = 0 THEN
               /\ reply' = [reply EXCEPT ![1] = 5]
               /\ pc' = "replyDialFailed"
               /\ UNCHANGED <<remoteAddress, result, clientClosed, remote>>
             ELSE
               /\ remoteAddress' = [remoteAddress EXCEPT !.IP = r[1]]
               /\ reply' = [reply EXCEPT ![3] = AtypOfLen(r[1])]
               /\ pc' = "readPort"
               /\ UNCHANGED <<result, clientClosed, remote>>
  /\ UNCHANGED <<versionMethod, methods, requestHeader, headerRead, buf, host, hostLen,
                 nread, frames, cliOut, dialed, remoteLocal, stops, c2rVars, r2cVars, mainVars>>

(***************************************************************************)
(* lines 139-149: net.LookupIP, first address wins.                        *)
(***************************************************************************)
LookupIP ==
  /\ pc = "lookup"
  /\ looked' = TRUE
  /\ \/ /\ Return("resolution")                     \* err != nil
        /\ UNCHANGED <<ips, remoteAddress, reply>>
     \/ \E r \in LookupResults :
          /\ ips' = r
          /\ IF Len(r) = 0 THEN
               /\ Return("resolution")
               /\ UNCHANGED <<remoteAddress, reply>>
             ELSE
               /\ remoteAddress' = [remoteAddress EXCEPT !.IP = r[1]]
               /\ reply' = [reply EXCEPT ![3] = AtypOfLen(r[1])]
               /\ pc' = "readPort"
               /\ UNCHANGED <<result, clientClosed, remote>>
  /\ UNCHANGED <<versionMethod, methods, requestHeader, headerRead, buf, host, hostLen,
                 nread, frames, cliOut, dialed, remoteLocal, stops, c2rVars, r2cVars, mainVars>>

(***************************************************************************)
(* lines 150-156: read the port of a DomainName request.                   *)
(***************************************************************************)
ReadPort ==
  /\ pc = "readPort"
  /\ \/ /\ ShortRead(2, "transport")
        /\ UNCHANGED remoteAddress
     \/ \E p \in PortInputs :
          /\ remoteAddress' = [remoteAddress EXCEPT !.Port = PortOf(p[1], p[2])]
          /\ nread' = nread + 2
          /\ pc' = "dial"
          /\ UNCHANGED <<result, clientClosed, remote>>
  /\ UNCHANGED <<versionMethod, methods, requestHeader, headerRead, reply, buf, host,
                 hostLen, ips, looked, frames, cliOut, dialed, remoteLocal,
                 stops, c2rVars, r2cVars, mainVars>>

\* whether ip is an IPv4 address, in 4-byte or in 16-byte form (net.IP.To4)
IsIPv4(ip) ==
  \/ Len(ip) = 4
  \/ /\ Len(ip) = 16
     /\ \A i \in 1..10 : ip[i] = 0
     /\ ip[11] = 255 /\ ip[12] = 255

\* the local addresses a socket connected to ip can be bound to: same family
LocalAddrsFor(ip) == {l \in LocalAddrs : IsIPv4(l.IP) <=> IsIPv4(ip)}

(***************************************************************************)
(* lines 166-173: net.DialTCP to remoteAddress.                            *)
(***************************************************************************)
Dial ==
  /\ pc = "dial"
  /\ dialed' = Append(dialed, remoteAddress)
  /\ \/ /\ reply' = [reply EXCEPT ![1] = 5]
        /\ pc' = "replyDialFailed"
        /\ UNCHANGED <<remote, remoteLocal>>
     \/ \E l \in LocalAddrsFor(remoteAddress.IP) :
          /\ remote' = "open"
          /\ remoteLocal' = l
          /\ pc' = "replySuccess"
          /\ UNCHANGED reply
  /\ UNCHANGED <<versionMethod, methods, requestHeader, headerRead, buf, host, hostLen,
                 ips, looked, remoteAddress, nread, frames, cliOut, clientClosed, result,
                 stops, c2rVars, r2cVars, mainVars>>

\* mutant of ReplyDialFailed: the abbreviated reply[:4] is written
ReplyDialFailedShort ==
  /\ pc = "replyDialFailed"
  /\ WriteAndReturn(Slice(reply, 0, 4), "dial")
  /\ UNCHANGED <<versionMethod, methods, requestHeader, headerRead, reply, buf, host,
                 hostLen, ips, looked, remoteAddress, nread, dialed, remoteLocal,
                 stops, c2rVars, r2cVars, mainVars>>

(***************************************************************************)
(* lines 169-171: the dial failed, reply[:6] with REP 0x05.                *)
(***************************************************************************)
ReplyDialFailed ==
  /\ pc = "replyDialFailed"
  /\ WriteAndReturn(Slice(reply, 0, 6), "dial")
  /\ UNCHANGED <<versionMethod, methods, requestHeader, headerRead, reply, buf, host,
                 hostLen, ips, looked, remoteAddress, nread, dialed, remoteLocal,
                 stops, c2rVars, r2cVars, mainVars>>

\* copy(dst[lo:hi], src): min(hi-lo, len(src)) bytes
CopyInto(dst, lo, hi, src) ==
  [i \in DOMAIN dst |-> IF i >= lo /\ i < lo + Min(hi - lo, Len(src)) THEN src[i - lo + 1] ELSE dst[i]]

\* lines 175-179: the success reply built from reply[3] and remoteAddress
SuccessReply(rep, ra) ==
  LET r1 == [rep EXCEPT ![1] = 0]
      ipEnd == 4 + 4 * r1[3]
      r2 == CopyInto(r1, 4, ipEnd, ra.IP)
  IN [r2 EXCEPT ![ipEnd] = (ra.Port \div 256) % 256, ![ipEnd + 1] = ra.Port % 256]

(***************************************************************************)
(* lines 175-190: write the success reply and start both relay loops.      *)
(***************************************************************************)
ReplySuccess ==
  /\ pc = "replySuccess"
  /\ reply' = SuccessReply(reply, remoteAddress)
  /\ LET ipEnd == 4 + 4 * reply'[3]
         f == Slice(reply', 0, ipEnd + 2) IN
       /\ frames' = Append(frames, f)
       /\ \E w \in WriteOutcomes(f) :
            /\ cliOut' = cliOut \o SubSeq(f, 1, w.n)
            /\ IF w.err THEN
                 /\ Return("transport")
                 /\ UNCHANGED <<cPc, rPc>>
               ELSE
                 /\ pc' = "relay"
                 /\ cPc' = "read"
                 /\ rPc' = "read"
                 /\ UNCHANGED <<result, clientClosed, remote>>
  /\ UNCHANGED <<versionMethod, methods, requestHeader, headerRead, buf, host, hostLen,
                 ips, looked, remoteAddress, nread, dialed, remoteLocal, stops,
                 cBuf, cStart, cliSent, upOut, cliEof, rBuf, rStart, upSent, relOut, upEof,
                 mainVars>>

(***************************************************************************)
(* The relay.  A loop is at "read" or "write" while it runs, at "send"     *)
(* while its deferred stopChan send waits for clientLoop, then "exited".   *)
(***************************************************************************)
\* outcomes of conn.Write(b) as the relay loops see them: nw bytes taken,
\* and an error that is nil, os.EOF or any other
RelayWriteOutcomes(len) == [nw : 0..len, err : {"nil", "EOF", "other"}]

\* lines 202 / 210 / 228 / 236: the test that ends a relay loop
IsFatal(err) == err # "nil" /\ err # "EOF"

\* mutant of NextStart: start = nw
NextStartAssign(start, nw) == nw

\* lines 214 / 240: start += nw
NextStart(start, nw) == start + nw

\* lines 208 / 234: the loop condition start < nr, tested after start moved
AfterWrite(start, nr) == IF start < nr THEN "write" ELSE "read"

(***************************************************************************)
(* readClientLoop, lines 199-205: client.Read into buf.                    *)
(***************************************************************************)
ClientRead ==
  /\ cPc = "read"
  /\ \/ \* data, nil error
        /\ ~cliEof
        /\ \E n \in 1..Min(BufSize, Len(ClientStream) - Len(cliSent)) :
             LET d == SubSeq(ClientStream, Len(cliSent) + 1, Len(cliSent) + n) IN
               /\ cBuf' = Arr(d)
               /\ cliSent' = cliSent \o d
        /\ cStart' = 0
        /\ cPc' = "write"
        /\ UNCHANGED cliEof
     \/ \* 0 bytes and os.EOF: not an exit, the for loop goes round
        /\ cliEof' = TRUE
        /\ cBuf' = <<>>
        /\ cStart' = 0
        /\ cPc' = (IF IsFatal("EOF") THEN "send" ELSE "read")
        /\ UNCHANGED cliSent
     \/ \* any other error
        /\ cPc' = (IF IsFatal("other") THEN "send" ELSE "read")
        /\ cBuf' = <<>>
        /\ cStart' = 0
        /\ UNCHANGED <<cliSent, cliEof>>
  /\ UNCHANGED <<negVars, stops, upOut, r2cVars, mainVars>>

(***************************************************************************)
(* readClientLoop, lines 208-215: remote.Write(buf[start:nr]).             *)
(***************************************************************************)
ClientWrite ==
  /\ cPc = "write"
  /\ LET nr == ALen(cBuf) IN
     \E w \in RelayWriteOutcomes(nr - cStart) :
       /\ upOut' = upOut \o Slice(cBuf, cStart, cStart + w.nw)
       /\ IF IsFatal(w.err) THEN
            /\ cPc' = "send"
            /\ UNCHANGED cStart
          ELSE
            /\ cStart' = NextStart(cStart, w.nw)
            /\ cPc' = AfterWrite(cStart', nr)
  /\ UNCHANGED <<negVars, stops, cBuf, cliSent, cliEof, r2cVars, mainVars>>

(***************************************************************************)
(* readRemoteLoop, lines 225-231: remote.Read into buf.                    *)
(***************************************************************************)
RemoteRead ==
  /\ rPc = "read"
  /\ \/ /\ ~upEof
        /\ \E n \in 1..Min(BufSize, Len(UpstreamStream) - Len(upSent)) :
             LET d == SubSeq(UpstreamStream, Len(upSent) + 1, Len(upSent) + n) IN
               /\ rBuf' = Arr(d)
               /\ upSent' = upSent \o d
        /\ rStart' = 0
        /\ rPc' = "write"
        /\ UNCHANGED upEof
     \/ /\ upEof' = TRUE
        /\ rBuf' = <<>>
        /\ rStart' = 0
        /\ rPc' = (IF IsFatal("EOF") THEN "send" ELSE "read")
        /\ UNCHANGED upSent
     \/ /\ rPc' = (IF IsFatal("other") THEN "send" ELSE "read")
        /\ rBuf' = <<>>
        /\ rStart' = 0
        /\ UNCHANGED <<upSent, upEof>>
  /\ UNCHANGED <<negVars, stops, relOut, c2rVars, mainVars>>

(***************************************************************************)
(* readRemoteLoop, lines 234-241: client.Write(buf[start:nr]).             *)
(***************************************************************************)
RemoteWrite ==
  /\ rPc = "write"
  /\ LET nr == ALen(rBuf) IN
     \E w \in RelayWriteOutcomes(nr - rStart) :
       /\ relOut' = relOut \o Slice(rBuf, rStart, rStart + w.nw)
       /\ IF IsFatal(w.err) THEN
            /\ rPc' = "send"
            /\ UNCHANGED rStart
          ELSE
            /\ rStart' = NextStart(rStart, w.nw)
            /\ rPc' = AfterWrite(rStart', nr)
  /\ UNCHANGED <<negVars, stops, rBuf, upSent, upEof, c2rVars, mainVars>>

\* mutant of Join: clientLoop returns after the first signal
JoinOne ==
  /\ stops' = stops + 1
  /\ IF stops' = 1 THEN Return("ok")
     ELSE UNCHANGED <<pc, result, clientClosed, remote>>
  /\ UNCHANGED <<versionMethod, methods, requestHeader, headerRead, reply, buf, host,
                 hostLen, ips, looked, remoteAddress, nread, frames, cliOut, dialed,
                 remoteLocal, cBuf, cStart, cliSent, upOut, cliEof,
                 rBuf, rStart, upSent, relOut, upEof, mainVars>>

\* lines 189-191: one signal taken from stopChan; after the second one
\* clientLoop returns and the deferred Close calls run
Join ==
  /\ stops' = stops + 1
  /\ IF stops' = 2 THEN Return("ok")
     ELSE UNCHANGED <<pc, result, clientClosed, remote>>
  /\ UNCHANGED <<versionMethod, methods, requestHeader, headerRead, reply, buf, host,
                 hostLen, ips, looked, remoteAddress, nread, frames, cliOut, dialed,
                 remoteLocal, cBuf, cStart, cliSent, upOut, cliEof,
                 rBuf, rStart, upSent, relOut, upEof, mainVars>>

(***************************************************************************)
(* readClientLoop, lines 194-196, meeting clientLoop's receive (189-190):  *)
(* the deferred send on the unbuffered stopChan completes.                 *)
(***************************************************************************)
RecvStopClient ==
  /\ pc = "relay"
  /\ cPc = "send"
  /\ cPc' = "exited"
  /\ UNCHANGED rPc
  /\ Join

(***************************************************************************)
(* readRemoteLoop, lines 220-222, meeting clientLoop's receive (189-190).  *)
(***************************************************************************)
RecvStopRemote ==
  /\ pc = "relay"
  /\ rPc = "send"
  /\ rPc' = "exited"
  /\ UNCHANGED cPc
  /\ Join

Next ==
  \/ ReadVersionMethod
  \/ ReadMethods
  \/ WriteMethodSelection
  \/ ReadRequestHeader
  \/ ReplyCommandNotSupported
  \/ ReplyAddressTypeNotSupported
  \/ ReadIP
  \/ ReadHostLen
  \/ ReadHost
  \/ LookupIP
  \/ ReadPort
  \/ Dial
  \/ ReplyDialFailed
  \/ ReplySuccess
  \/ ClientRead
  \/ ClientWrite
  \/ RemoteRead
  \/ RemoteWrite
  \/ RecvStopClient
  \/ RecvStopRemote

Spec == Init /\ [][Next]_vars

(***************************************************************************)
(* main, lines 24-34.  MainSpec follows the accept loop and the goroutines *)
(* it starts; each goroutine is reduced to the stage clientLoop is in:     *)
(* "negotiating" (lines 38-184), "relaying" (186-190), and after its       *)
(* return "failed" (a negotiation error) or "finished" (the relay joined). *)
(* clientLoop leaves only by return: it has no os.Exit, log.Fatal or panic.*)
(***************************************************************************)
\* mutant of AcceptErrorOutcome: lines 28-31 as they read, a temporary error
\* is survived
AcceptErrorTolerant(temporary) == IF temporary THEN "running" ELSE "exited"

\* lines 26-27: log.Fatalf ends the process before lines 28-31 can run
AcceptErrorOutcome(temporary) == "exited"

(***************************************************************************)
(* lines 25 and 33: AcceptTCP returns a connection, go clientLoop(client). *)
(***************************************************************************)
AcceptConnection ==
  /\ process = "running"
  /\ Len(tasks) < MaxConns
  /\ tasks' = Append(tasks, "negotiating")
  /\ acceptErr' = "none"
  /\ UNCHANGED <<process, negVars, stops, c2rVars, r2cVars>>

(***************************************************************************)
(* lines 25-32: AcceptTCP returns an error.                                *)
(***************************************************************************)
AcceptFails ==
  /\ process = "running"
  /\ \E temporary \in BOOLEAN :
       /\ acceptErr' = (IF temporary THEN "temporary" ELSE "permanent")
       /\ process' = AcceptErrorOutcome(temporary)
  /\ UNCHANGED <<tasks, negVars, stops, c2rVars, r2cVars>>

\* a goroutine of the process moves from stage `from` to stage `to`
TaskMoves(i, from, to) ==
  /\ process = "running"
  /\ tasks[i] = from
  /\ tasks' = [tasks EXCEPT ![i] = to]
  /\ UNCHANGED <<process, acceptErr, negVars, stops, c2rVars, r2cVars>>

(***************************************************************************)
(* clientLoop, the error returns of lines 43-184.                          *)
(***************************************************************************)
TaskFails == \E i \in DOMAIN tasks : TaskMoves(i, "negotiating", "failed")

(***************************************************************************)
(* clientLoop, lines 186-188: negotiation done, the relay loops start.     *)
(***************************************************************************)
TaskRelays == \E i \in DOMAIN tasks : TaskMoves(i, "negotiating", "relaying")

(***************************************************************************)
(* clientLoop, lines 189-191: both signals received, clientLoop returns.   *)
(***************************************************************************)
TaskFinishes == \E i \in DOMAIN tasks : TaskMoves(i, "relaying", "finished")

MainNext ==
  \/ AcceptConnection
  \/ AcceptFails
  \/ TaskFails
  \/ TaskRelays
  \/ TaskFinishes

MainSpec == Init /\ [][MainNext]_vars

(***************************************************************************)
(* Properties.                                                             *)
(***************************************************************************)
\* the request header fields, once the header has been read
ReqVer  == requestHeader[0]
ReqCmd  == requestHeader[1]
ReqRsv  == requestHeader[2]
ReqAtyp == requestHeader[3]
\* neither relay loop was ever started
NoRelay == cPc = "idle" /\ rPc = "idle"
\* clientLoop has returned and closed the client socket
Closed == pc = "done" /\ clientClosed
\* the last buffer clientLoop handed to client.Write
LastFrame == frames[Len(frames)]

\* C1: after a version-5 greeting with N >= 1 methods has been read, a greeting
\* that offers 0x00 makes the proxy write [0x05][0x00] and, that write done,
\* move on to reading the request; a greeting without 0x00 closes the
\* connection with nothing written to the client.
C1_MethodSelection ==
  [][ /\ (methods' # <<>> /\ 0 \notin Range(methods'))
          => (Closed' /\ frames' = <<>> /\ cliOut' = <<>> /\ ~headerRead')
      /\ (pc = "readMethods" /\ methods' # <<>> /\ 0 \in Range(methods'))
          => (pc' = "writeMethod" /\ ~clientClosed')
      /\ (pc = "writeMethod")
          => /\ frames' = << <<5, 0>> >>
             /\ (cliOut' = <<5, 0>>) <=> (pc' = "readRequest")
             /\ (cliOut' # <<5, 0>>) => Closed'
    ]_vars

C1_Witness ==
  pc = "readRequest" /\ methods = <<2, 0>> /\ frames = << <<5, 0>> >> /\ cliOut = <<5, 0>>

RecordedAtyp == IF ReqAtyp = 3 THEN Len(ips[1]) \div 4 ELSE ReqAtyp

C3_Original ==
  (headerRead /\ ReqRsv # 0) => (Len(frames) = 1 /\ dialed = <<>>)

\* C3 (amended): a request header with a non-zero reserved byte never leads to
\* a lookup or a dial; the connection is closed with no reply frame, except
\* that a version-5 header whose command is not CONNECT is answered with the
\* 4-byte reply [05][07][00][00] first.
C3_ReservedByte ==
  (headerRead /\ ReqRsv # 0) =>
    /\ dialed = <<>> /\ ~looked /\ remote = "none" /\ NoRelay
    /\ nread = 2 + Len(methods) + 4
    /\ IF ReqVer = 5 /\ ReqCmd # 1
         THEN \/ pc = "replyCommand" /\ Len(frames) = 1
              \/ Closed /\ Len(frames) = 2 /\ LastFrame = <<5, 7, 0, 0>>
         ELSE Closed /\ result = "protocol" /\ Len(frames) = 1

C3_Witness ==
  headerRead /\ ReqRsv # 0 /\ ReqVer = 5 /\ ReqCmd = 1 /\ ReqAtyp = 1 /\ Closed

\* the success reply has been handed to client.Write
SuccessReplied == Len(frames) = 2 /\ LastFrame[2] = 0

\* C4 (as claimed): the success reply carries REP 0x00 and, as BND.ADDR and
\* BND.PORT, the local address and port of the outbound socket; for an IPv4
\* target its ATYP is 0x01 and its port is not zero.
C4_BoundAddress ==
  SuccessReplied =>
    LET n == Len(remoteLocal.IP) IN
      /\ Len(LastFrame) = 4 + n + 2
      /\ SubSeq(LastFrame, 5, 4 + n) = remoteLocal.IP
      /\ LastFrame[4 + n + 1] * 256 + LastFrame[4 + n + 2] = remoteLocal.Port
      /\ LastFrame[4] = n \div 4

\* the bytes of buf[start:] a relay loop still has to write
Pending(b, start) == Slice(b, start, ALen(b))

\* C5: in each direction the bytes delivered are always a prefix of the bytes
\* read (nothing duplicated or reordered), and as long as the loop has met no
\* fatal error the bytes delivered plus the rest of the current chunk are
\* exactly the bytes read (nothing lost), for any chunking and partial writes.
C5_RelayExact ==
  /\ IsPrefix(upOut, cliSent)
  /\ IsPrefix(relOut, upSent)
  /\ IsPrefix(cliSent, ClientStream)
  /\ IsPrefix(upSent, UpstreamStream)
  /\ cPc \in {"read", "write"} => upOut \o Pending(cBuf, cStart) = cliSent
  /\ rPc \in {"read", "write"} => relOut \o Pending(rBuf, rStart) = upSent
  /\ cPc = "read" => upOut = cliSent
  /\ rPc = "read" => relOut = upSent

C5_Witness ==
  /\ cPc = "read" /\ upOut = ClientStream /\ ALen(cBuf) = 1
  /\ rPc = "write" /\ rStart = 1 /\ ALen(rBuf) = 2 /\ relOut = <<101>>

\* C6 (as claimed): a relay loop whose read has returned end-of-stream exits;
\* it is never back at its read.
C6_ExitOnEof ==
  /\ cliEof => cPc \in {"send", "exited"}
  /\ upEof => rPc \in {"send", "exited"}

\* C7: a version-5 request whose command is not CONNECT is answered with
\* exactly [05][07][00][00]; no request byte after the header is read, no
\* lookup or dial is made, and the connection is closed.
C7_CommandNotSupported ==
  (headerRead /\ ReqVer = 5 /\ ReqCmd # 1) =>
    /\ nread = 2 + Len(methods) + 4
    /\ dialed = <<>> /\ ~looked /\ remote = "none" /\ NoRelay
    /\ \/ pc = "replyCommand" /\ Len(frames) = 1
       \/ /\ Closed
          /\ frames = << <<5, 0>>, <<5, 7, 0, 0>> >>
          /\ IsPrefix(cliOut, <<5, 0, 5, 7, 0, 0>>)

C7_Witness ==
  result = "unsupportedCommand" /\ ReqRsv = 1 /\ cliOut = <<5, 0, 5, 7, 0, 0>>

\* C8: a version-5 CONNECT request with reserved byte 0 and an address type
\* other than 0x01, 0x03, 0x04 is answered with exactly [05][08][00][00]; no
\* lookup or dial is made, and the connection is closed.
C8_AddressTypeNotSupported ==
  (headerRead /\ ReqVer = 5 /\ ReqCmd = 1 /\ ReqRsv = 0 /\ ReqAtyp \notin {1, 3, 4}) =>
    /\ nread = 2 + Len(methods) + 4
    /\ dialed = <<>> /\ ~looked /\ remote = "none" /\ NoRelay
    /\ \/ pc = "replyAtyp" /\ Len(frames) = 1
       \/ /\ Closed
          /\ frames = << <<5, 0>>, <<5, 8, 0, 0>> >>
          /\ IsPrefix(cliOut, <<5, 0, 5, 8, 0, 0>>)

C8_Witness ==
  result = "unsupportedAtyp" /\ ReqAtyp = 5 /\ cliOut = <<5, 0, 5, 8, 0, 0>>

\* C9 (as claimed): for a DomainName request with host length L, the length
\* byte, the L name bytes and the 2 port bytes have all been consumed before
\* the name is resolved, so no resolution outcome precedes a short read.
C9_DecodeBeforeResolve ==
  looked => nread >= 2 + Len(methods) + 4 + 1 + hostLen + 2

\* C10: for ATYP 0x01 / 0x04 the one address handed to the dialer is the 4 / 16
\* address bytes read, with port hi * 256 + lo of the two bytes after them.
C10_DialTarget ==
  /\ Len(dialed) <= 1
  /\ (Len(dialed) = 1 /\ ReqAtyp \in {1, 4}) =>
       LET n == IF ReqAtyp = 1 THEN 4 ELSE 16 IN
         /\ ALen(buf) = n + 2
         /\ dialed[1].IP = [k \in 1..n |-> buf[k - 1]]
         /\ dialed[1].Port = buf[n] * 256 + buf[n + 1]
         /\ dialed[1].Port \in 0..65535

C10_Witness ==
  Len(dialed) = 1 /\ ReqAtyp = 4 /\ dialed[1].Port = 65534 /\ Len(dialed[1].IP) = 16

\* C11: when the lookup of a DomainName request returns an error or no address,
\* clientLoop returns with no reply frame written (the client has received the
\* 2-byte method selection and nothing else), no dial attempted, and the
\* client socket closed.
C11_ResolutionFailure ==
  (looked /\ (ips = <<>> \/ result = "resolution")) =>
    /\ ips = <<>> /\ result = "resolution"
    /\ Closed /\ NoRelay
    /\ frames = << <<5, 0>> >>
    /\ cliOut = <<5, 0>>
    /\ dialed = <<>> /\ remote = "none"

C11_Witness ==
  result = "resolution" /\ looked /\ ReqAtyp = 3 /\ hostLen = 1 /\ cliOut = <<5, 0>>

\* the dial of this connection has succeeded
DialSucceeded == remoteLocal.IP # <<>>

\* C12: a connection whose negotiation fails at any step never starts a relay
\* loop, and once clientLoop has ended the client socket is closed and so is
\* the outbound socket if the dial had succeeded.
C12_FailureClosesSockets ==
  /\ result \notin {"running", "ok"} => (pc = "done" /\ NoRelay)
  /\ pc = "done" =>
       /\ result # "running"
       /\ clientClosed
       /\ remote = (IF DialSucceeded THEN "closed" ELSE "none")
  /\ pc # "done" => (~clientClosed /\ remote # "closed")

C12_Witness ==
  pc = "done" /\ result = "transport" /\ DialSucceeded /\ remote = "closed" /\ Len(frames) = 2

\* the number of request bytes after the 4-byte header, for the address type
RequestRest == IF ReqAtyp = 3 THEN 1 + hostLen + 2 ELSE 4 * ReqAtyp + 2

\* C13: within one connection the greeting is read in full before [05][00] is
\* written, that write has succeeded before any request byte is read, the
\* whole request is read before the dial, there is at most one dial and it
\* has succeeded before the success reply is written, and no relay loop has
\* started unless the success reply was written in full.
C13_NegotiationOrder ==
  /\ frames # <<>> => (methods # <<>> /\ nread >= 2 + Len(methods))
  /\ (methods # <<>> /\ nread > 2 + Len(methods))
       => (frames # <<>> /\ IsPrefix(<<5, 0>>, cliOut))
  /\ headerRead => IsPrefix(<<5, 0>>, cliOut)
  /\ Len(dialed) <= 1
  /\ dialed # <<>> =>
       /\ headerRead
       /\ nread = 2 + Len(methods) + 4 + RequestRest
       /\ Len(frames) >= 1
  /\ DialSucceeded => Len(dialed) = 1
  /\ SuccessReplied => (Len(dialed) = 1 /\ DialSucceeded)
  /\ ~NoRelay =>
       /\ SuccessReplied
       /\ cliOut = <<5, 0>> \o LastFrame
       /\ cPc # "idle" /\ rPc # "idle"

C13_Witness ==
  pc = "relay" /\ ReqAtyp = 3 /\ hostLen = 1 /\ stops = 0 /\ cPc = "write" /\ rPc = "read"

\* the number of relay loops whose completion signal has been delivered
Delivered == (IF cPc = "exited" THEN 1 ELSE 0) + (IF rPc = "exited" THEN 1 ELSE 0)

\* C14: each relay loop that exits sends one signal, clientLoop has received
\* exactly the signals of the loops that exited and returns from the relay
\* only with both; so no socket is closed while a relay loop is still running,
\* and a loop waiting to send always finds clientLoop ready to receive.
C14_CompletionSignals ==
  /\ stops = Delivered
  /\ result = "ok" => (stops = 2 /\ cPc = "exited" /\ rPc = "exited")
  /\ (pc = "done" /\ ~NoRelay) => (result = "ok" /\ stops = 2)
  /\ (clientClosed \/ remote = "closed")
       => (cPc \in {"idle", "exited"} /\ rPc \in {"idle", "exited"})
  /\ cPc = "send" => ENABLED RecvStopClient
  /\ rPc = "send" => ENABLED RecvStopRemote

C14_Witness ==
  pc = "done" /\ result = "ok" /\ stops = 2 /\ remote = "closed" /\ upOut = ClientStream

\* a relay loop has left its for loop
CExited == cPc \in {"send", "exited"}
RExited == rPc \in {"send", "exited"}

\* C15 (as claimed): once one relay loop has exited, the other loop exits too
\* when it observes end-of-stream; the relay does not go on with one
\* direction that has already seen its peer's end-of-stream.
C15_OtherDirectionExits ==
  /\ (CExited /\ upEof) => RExited
  /\ (RExited /\ cliEof) => CExited

\* the SOCKS5 address type of the family of ip
FamilyAtyp(ip) == IF IsIPv4(ip) THEN 1 ELSE 4

\* C16 (as claimed): for a DomainName request whose lookup returned at least
\* one address, the dialed target is the first address returned and the
\* address-type byte of the success reply is 0x01 for an IPv4 and 0x04 for an IPv6
\* first address, in whatever length the resolver represents it.
C16_ReplyFamily ==
  (headerRead /\ ReqAtyp = 3 /\ dialed # <<>>) =>
    /\ dialed[1].IP = ips[1]
    /\ SuccessReplied => LastFrame[4] = FamilyAtyp(ips[1])

\* the two greeting bytes have been read and are a bad version or N = 0
BadGreeting ==
  /\ nread >= 2
  /\ \/ versionMethod[0] # 5
     \/ versionMethod[1] = 0 /\ methods = <<>>

\* C17: a greeting with a version other than 5 or with N = 0 closes the
\* connection with nothing written and no method byte read; a request with a
\* version other than 5 closes it with nothing written beyond the 2-byte
\* method selection.
C17_BadVersion ==
  /\ BadGreeting =>
       /\ Closed /\ result = "protocol" /\ NoRelay
       /\ frames = <<>> /\ cliOut = <<>>
       /\ nread = 2 /\ methods = <<>>
       /\ ~headerRead /\ dialed = <<>>
  /\ (headerRead /\ ReqVer # 5) =>
       /\ Closed /\ result = "protocol" /\ NoRelay
       /\ frames = << <<5, 0>> >> /\ cliOut = <<5, 0>>
       /\ nread = 2 + Len(methods) + 4
       /\ ~looked /\ dialed = <<>> /\ remote = "none"

C17_Witness ==
  headerRead /\ ReqVer = 4 /\ ReqCmd = 2 /\ ReqRsv = 1 /\ Closed /\ cliOut = <<5, 0>>

\* a well-formed SOCKS5 reply: [05][REP][00] and either the abbreviated 4-byte
\* form with ATYP 0x00 or a length that matches ATYP
WellFormedReply(f) ==
  /\ Len(f) >= 4
  /\ f[1] = 5 /\ f[2] \in {0, 5, 7, 8} /\ f[3] = 0
  /\ \/ Len(f) = 4 /\ f[4] = 0
     \/ Len(f) = 4 + 4 + 2 /\ f[4] = 1
     \/ Len(f) = 4 + 16 + 2 /\ f[4] = 4

\* C18 (as claimed): every reply frame clientLoop writes, on any path, is a
\* well-formed SOCKS5 reply.
C18_ReplyWellFormed ==
  \A i \in 2..Len(frames) : WellFormedReply(frames[i])

\* all the frames clientLoop has handed to client.Write, as one byte string
RECURSIVE Concat(_)
Concat(fs) == IF fs = <<>> THEN <<>> ELSE Head(fs) \o Concat(Tail(fs))

\* the second frame is a failure reply
FailureReplied == Len(frames) = 2 /\ LastFrame[2] \in {5, 7, 8}

\* C19: clientLoop writes at most the method selection and then at most one
\* reply, a reply never comes before the method selection, and after a
\* failure reply (0x05, 0x07, 0x08) nothing more is written or relayed to the
\* client.
C19_OneReply ==
  /\ Len(frames) <= 2
  /\ frames # <<>> => frames[1] = <<5, 0>>
  /\ Len(frames) = 2 =>
       /\ Len(LastFrame) >= 4
       /\ LastFrame[1] = 5 /\ LastFrame[2] \in {0, 5, 7, 8}
       /\ IsPrefix(<<5, 0>>, cliOut)
  /\ IsPrefix(cliOut, Concat(frames))
  /\ relOut # <<>> => (SuccessReplied /\ cliOut = Concat(frames))
  /\ FailureReplied => (Closed /\ NoRelay /\ relOut = <<>>)

C19_Witness ==
  FailureReplied /\ result = "dial" /\ ReqAtyp = 1 /\ Len(cliOut) = 8

\* a step of one connection's task: some task changes its stage
TaskStep == Len(tasks') = Len(tasks) /\ tasks' # tasks

\* C20: every accept error, temporary or not, ends the process, and with it
\* every connection task still in flight (no task moves any more); the accept
\* loop never goes on after an error; a step inside one connection's task
\* leaves the process running and every other task as it was.
C20_AcceptErrorFatal ==
  /\ [](acceptErr # "none" => process = "exited")
  /\ [][ /\ process = "exited" => UNCHANGED mainVars
         /\ acceptErr' # "none" /\ acceptErr' # acceptErr => process' = "exited"
         /\ TaskStep =>
              /\ process' = process /\ process = "running"
              /\ acceptErr' = acceptErr
              /\ \E i \in DOMAIN tasks :
                   \A j \in DOMAIN tasks : j # i => tasks'[j] = tasks[j]
       ]_vars

C20_Witness ==
  /\ process = "exited" /\ acceptErr = "temporary"
  /\ \E i \in DOMAIN tasks : tasks[i] = "relaying"
  /\ \E i \in DOMAIN tasks : tasks[i] = "failed"

====
